---------------------------- MODULE Spec2Model ----------------------------
(***************************************************************************)
(* A model of the Queryer crate: the SQL-subset translator of              *)
(* src/src/convert.rs, the source fetcher of src/queryer/src/fetcher.rs    *)
(* and the query() orchestrator of src/src/lib.rs.                         *)
(*                                                                         *)
(* Text is a sequence of characters, each a one-character string; a        *)
(* character that UTF-8 encodes in several bytes is written "U2" (two      *)
(* bytes) or "U3" (three bytes), so that byte-indexed slicing can be       *)
(* modelled as Rust performs it.  Integers that the code keeps in 64 bits  *)
(* are kept as canonical decimal numerals (digit sequences), compared      *)
(* digit by digit, so that the real limits usize::MAX and i64::MAX apply.  *)
(***************************************************************************)
EXTENDS Integers, Sequences, FiniteSets, TLC

VARIABLES
    pc,         \* position of the running operation
    expr,       \* input of the expression translator (a SqlExpr)
    eres,       \* its result
    stmt,       \* input of the statement translator (a Statement)
    sres,       \* its result
    ast,        \* result of the external parser, input of query()
    name,       \* the source string handed to retrieve_data
    fres,       \* result of retrieve_data
    fetchLog,   \* fetches attempted so far, in order
    loaded,     \* whether detect_contend(..).load() has produced a frame
    plan,       \* the lazy pipeline built so far, in order
    qres        \* result of query()

vars == <<pc, expr, eres, stmt, sres, ast, name, fres, fetchLog, loaded, plan, qres>>

---------------------------------------------------------------------------
(* Text                                                                    *)

Utf8Len(c) == IF c = "U2" THEN 2 ELSE IF c = "U3" THEN 3 ELSE 1

RECURSIVE ByteLen(_)
ByteLen(s) == IF s = <<>> THEN 0 ELSE Utf8Len(Head(s)) + ByteLen(Tail(s))

\* The byte offsets at which a character of s starts, and the offset of its end.
CharBoundaries(s) == {ByteLen(SubSeq(s, 1, k)) : k \in 0..Len(s)}

\* &s[..n]: defined when n is a character boundary of s (Rust panics otherwise).
CanSlice(s, n) == n \in CharBoundaries(s)

SliceTo(s, n) ==
    LET k == CHOOSE j \in 0..Len(s) : ByteLen(SubSeq(s, 1, j)) = n
    IN  SubSeq(s, 1, k)

SliceFrom(s, n) ==
    LET k == CHOOSE j \in 0..Len(s) : ByteLen(SubSeq(s, 1, j)) = n
    IN  SubSeq(s, k + 1, Len(s))

StartsWith(s, p) == Len(s) >= Len(p) /\ SubSeq(s, 1, Len(p)) = p

HTTP == <<"h", "t", "t", "p">>
FILE == <<"f", "i", "l", "e">>
FILE_SCHEME == <<"f", "i", "l", "e", ":", "/", "/">>

---------------------------------------------------------------------------
(* Results                                                                 *)

\* The value of an input no operation of the behaviour reads.
Idle == <<>>

Pending == [kind |-> "pending", err |-> "", val |-> <<>>]
Ok(v) == [kind |-> "ok", err |-> "", val |-> v]
Err(e) == [kind |-> "err", err |-> e, val |-> <<>>]
\* A panic: the operation terminates abnormally and returns nothing.
Panic(e) == [kind |-> "panic", err |-> e, val |-> <<>>]

IsOk(r) == r.kind = "ok"
IsErr(r) == r.kind = "err"
IsPanic(r) == r.kind = "panic"

---------------------------------------------------------------------------
(* Numerals and str::parse                                                 *)

Digits == {"0", "1", "2", "3", "4", "5", "6", "7", "8", "9"}

DigitVal(c) ==
    CASE c = "0" -> 0 [] c = "1" -> 1 [] c = "2" -> 2 [] c = "3" -> 3 [] c = "4" -> 4
      [] c = "5" -> 5 [] c = "6" -> 6 [] c = "7" -> 7 [] c = "8" -> 8 [] c = "9" -> 9

IsDigits(s) == \A i \in DOMAIN s : s[i] \in Digits

\* The canonical numeral of a digit sequence: no leading zeros, "0" for zero.
RECURSIVE StripZeros(_)
StripZeros(s) ==
    IF Len(s) > 1 /\ Head(s) = "0" THEN StripZeros(Tail(s))
    ELSE IF s = <<>> THEN <<"0">> ELSE s

RECURSIVE StripTrailingZeros(_)
StripTrailingZeros(s) ==
    IF s # <<>> /\ s[Len(s)] = "0" THEN StripTrailingZeros(SubSeq(s, 1, Len(s) - 1)) ELSE s

\* a <= b for canonical numerals of the same length.
RECURSIVE LexLE(_, _)
LexLE(a, b) ==
    IF a = <<>> THEN TRUE
    ELSE IF DigitVal(Head(a)) < DigitVal(Head(b)) THEN TRUE
    ELSE IF DigitVal(Head(a)) > DigitVal(Head(b)) THEN FALSE
    ELSE LexLE(Tail(a), Tail(b))

\* a <= b for canonical numerals.
NumLE(a, b) == Len(a) < Len(b) \/ (Len(a) = Len(b) /\ LexLE(a, b))

\* usize::MAX = 18446744073709551615 and i64::MAX = 9223372036854775807.
USIZE_MAX ==
    <<"1", "8", "4", "4", "6", "7", "4", "4", "0", "7",
      "3", "7", "0", "9", "5", "5", "1", "6", "1", "5">>
I64_MAX ==
    <<"9", "2", "2", "3", "3", "7", "2", "0", "3", "6",
      "8", "5", "4", "7", "7", "5", "8", "0", "7">>
I64_MIN_MAGNITUDE ==
    <<"9", "2", "2", "3", "3", "7", "2", "0", "3", "6",
      "8", "5", "4", "7", "7", "5", "8", "0", "8">>

ParseFailed == [ok |-> FALSE, neg |-> FALSE, num |-> <<>>]
Parsed(neg, num) == [ok |-> TRUE, neg |-> neg, num |-> num]

\* str::parse::<usize>: an optional "+", then one or more digits, in range.
ParseUsize(t) ==
    LET body == IF t # <<>> /\ Head(t) = "+" THEN Tail(t) ELSE t
    IN  IF body = <<>> \/ ~IsDigits(body) THEN ParseFailed
        ELSE IF ~NumLE(StripZeros(body), USIZE_MAX) THEN ParseFailed
        ELSE Parsed(FALSE, StripZeros(body))

\* str::parse::<i64>: an optional sign, then one or more digits, in range.
ParseI64(t) ==
    LET signed == t # <<>> /\ Head(t) \in {"+", "-"}
        neg == signed /\ Head(t) = "-"
        body == IF signed THEN Tail(t) ELSE t
        mag == StripZeros(body)
    IN  IF body = <<>> \/ ~IsDigits(body) THEN ParseFailed
        ELSE IF ~NumLE(mag, IF neg THEN I64_MIN_MAGNITUDE ELSE I64_MAX) THEN ParseFailed
        ELSE Parsed(neg /\ mag # <<"0">>, mag)

FirstIndex(s, cs) ==
    IF \E i \in DOMAIN s : s[i] \in cs
    THEN CHOOSE i \in DOMAIN s : s[i] \in cs /\ \A j \in 1..(i - 1) : s[j] \notin cs
    ELSE 0

F64Failed == [ok |-> FALSE, neg |-> FALSE, int |-> <<>>, frac |-> <<>>, exp |-> <<>>]

\* str::parse::<f64> on decimal text: an optional sign, digits with at most
\* one point and at least one digit, and an optional exponent.  The value is
\* kept as the decimal it denotes (rounding to the nearest double is not
\* modelled).
ParseF64(t) ==
    LET signed == t # <<>> /\ Head(t) \in {"+", "-"}
        body == IF signed THEN Tail(t) ELSE t
        e == FirstIndex(body, {"e", "E"})
        mant == IF e = 0 THEN body ELSE SubSeq(body, 1, e - 1)
        expo == IF e = 0 THEN <<>> ELSE SubSeq(body, e + 1, Len(body))
        expoSigned == expo # <<>> /\ Head(expo) \in {"+", "-"}
        expoDigits == IF expoSigned THEN Tail(expo) ELSE expo
        dot == FirstIndex(mant, {"."})
        int == IF dot = 0 THEN mant ELSE SubSeq(mant, 1, dot - 1)
        frac == IF dot = 0 THEN <<>> ELSE SubSeq(mant, dot + 1, Len(mant))
    IN  IF ~IsDigits(int) \/ ~IsDigits(frac) \/ Len(int) + Len(frac) = 0 THEN F64Failed
        ELSE IF e # 0 /\ (expoDigits = <<>> \/ ~IsDigits(expoDigits)) THEN F64Failed
        ELSE [ok |-> TRUE, neg |-> signed /\ Head(t) = "-", int |-> StripZeros(int),
              frac |-> StripTrailingZeros(frac), exp |-> expo]

---------------------------------------------------------------------------
(* The SQL syntax tree (sqlparser::ast) and the translated expressions     *)
(* (polars Expr), as far as src/src/convert.rs reads and builds them        *)

\* An identifier: its text as the parser stripped it, and the quote
\* character it was written with ("" when unquoted).
Ident(value, quote) == [value |-> value, quote |-> quote]

\* Ident's Display, behind id.to_string(): a quoted identifier is written
\* with its quotes.
IdentToString(id) ==
    IF id.quote = "" THEN id.value
    ELSE IF id.quote = "[" THEN <<"[">> \o id.value \o <<"]">>
    ELSE <<id.quote>> \o id.value \o <<id.quote>>

\* ObjectName's Display: its identifiers joined by ".".
RECURSIVE ObjectNameToString(_)
ObjectNameToString(idents) ==
    IF idents = <<>> THEN <<>>
    ELSE IF Len(idents) = 1 THEN IdentToString(idents[1])
    ELSE IdentToString(idents[1]) \o <<".">> \o ObjectNameToString(Tail(idents))

SqlNumber(text) == [kind |-> "Number", text |-> text, b |-> FALSE]
SqlBoolean(b) == [kind |-> "Boolean", text |-> <<>>, b |-> b]
SqlNull == [kind |-> "Null", text |-> <<>>, b |-> FALSE]
SqlString(text) == [kind |-> "SingleQuotedString", text |-> text, b |-> FALSE]

SqlIdentifier(id) == [kind |-> "Identifier", id |-> id]
SqlValueExpr(v) == [kind |-> "Value", v |-> v]
SqlBinaryOp(l, o, r) == [kind |-> "BinaryOp", left |-> l, op |-> o, right |-> r]
SqlIsNull(e) == [kind |-> "IsNull", expr |-> e]
SqlIsNotNull(e) == [kind |-> "IsNotNull", expr |-> e]
SqlWildcard == [kind |-> "Wildcard"]
\* Any expression convert.rs has no arm for (a function call, a CASE, ...).
SqlFunction == [kind |-> "Function"]

Float64(f) == [kind |-> "Float64", f |-> f, b |-> FALSE]
Boolean(b) == [kind |-> "Boolean", f |-> F64Failed, b |-> b]
Null == [kind |-> "Null", f |-> F64Failed, b |-> FALSE]

Column(n) == [kind |-> "Column", name |-> n]
Literal(v) == [kind |-> "Literal", value |-> v]
Wildcard == [kind |-> "Wildcard"]
BinaryExpr(l, o, r) == [kind |-> "BinaryExpr", left |-> l, op |-> o, right |-> r]
IsNull(e) == [kind |-> "IsNull", expr |-> e]
IsNotNull(e) == [kind |-> "IsNotNull", expr |-> e]
Alias(e, n) == [kind |-> "Alias", expr |-> e, name |-> n]

\* polars col(): the name "*" is the wildcard, any other name a column.
col(n) == IF n = <<"*">> THEN Wildcard ELSE Column(n)

---------------------------------------------------------------------------
(* The operator and literal mappers: src/src/convert.rs                    *)

SupportedOperators ==
    {"Plus", "Minus", "Multiply", "Divide", "Modulo", "Gt", "Lt", "GtEq", "LtEq",
     "Eq", "NotEq", "And", "Or"}

\* impl TryFrom<Operation> for Operator
TryFromOperation(op) ==
    IF op \in SupportedOperators THEN Ok(op)
    ELSE Err("Operator is not supported")

\* impl TryFrom<Value> for LiteralValue.  A number goes through
\* v.parse().unwrap(), which panics when the text is no floating-point number.
TryFromValue(v) ==
    CASE v.kind = "Number" ->
            LET f == ParseF64(v.text)
            IN  IF f.ok THEN Ok(Float64(f))
                ELSE Panic("called Result::unwrap() on an Err value")
      [] v.kind = "Boolean" -> Ok(Boolean(v.b))
      [] v.kind = "Null" -> Ok(Null)
      [] OTHER -> Err("Value is not supported")

---------------------------------------------------------------------------
(* The expression translator: src/src/convert.rs                           *)

\* One conversion attempted: which (an expression node, the operator of a
\* binary node, the literal of a value node) and where in the tree.
Event(what, at) == [what |-> what, at |-> at]

\* What a conversion returns, with the conversions it attempted, in order.
Out(res, log) == [res |-> res, log |-> log]

RECURSIVE TryFromExpression(_, _)

\* The BinaryOp arm evaluated operator first, then left, then right.
TryFromBinaryOp_OperatorFirst(e, at) ==
    LET self == <<Event("expr", at)>>
        o == TryFromOperation(e.op)
        olog == self \o <<Event("op", at)>>
    IN  IF ~IsOk(o) THEN Out(o, olog)
        ELSE LET l == TryFromExpression(e.left, Append(at, "left"))
             IN  IF ~IsOk(l.res) THEN Out(l.res, olog \o l.log)
                 ELSE LET r == TryFromExpression(e.right, Append(at, "right"))
                      IN  IF ~IsOk(r.res) THEN Out(r.res, olog \o l.log \o r.log)
                          ELSE Out(Ok(BinaryExpr(l.res.val, o.val, r.res.val)),
                                   olog \o l.log \o r.log)

\* SqlExpr::BinaryOp{left, op, right} => Ok(Self::BinaryExpr {
\*     left: Box::new(Expression(left).try_into()?),
\*     op: Operation(op).try_into()?,
\*     right: Box::new(Expression(right).try_into()?) })
\* The fields are evaluated in the order written and each ? returns at once.
TryFromBinaryOp(e, at) ==
    LET self == <<Event("expr", at)>>
        l == TryFromExpression(e.left, Append(at, "left"))
    IN  IF ~IsOk(l.res) THEN Out(l.res, self \o l.log)
        ELSE LET o == TryFromOperation(e.op)
                 olog == self \o l.log \o <<Event("op", at)>>
             IN  IF ~IsOk(o) THEN Out(o, olog)
                 ELSE LET r == TryFromExpression(e.right, Append(at, "right"))
                      IN  IF ~IsOk(r.res) THEN Out(r.res, olog \o r.log)
                          ELSE Out(Ok(BinaryExpr(l.res.val, o.val, r.res.val)),
                                   olog \o r.log)

\* impl TryFrom<Expression> for Expr
TryFromExpression(e, at) ==
    LET self == <<Event("expr", at)>>
    IN  CASE e.kind = "BinaryOp" -> TryFromBinaryOp(e, at)
          [] e.kind = "Wildcard" -> Out(Ok(Wildcard), self)
          [] e.kind = "IsNull" ->
                LET i == TryFromExpression(e.expr, Append(at, "inner"))
                IN  IF ~IsOk(i.res) THEN Out(i.res, self \o i.log)
                    ELSE Out(Ok(IsNull(i.res.val)), self \o i.log)
          [] e.kind = "IsNotNull" ->
                LET i == TryFromExpression(e.expr, Append(at, "inner"))
                IN  IF ~IsOk(i.res) THEN Out(i.res, self \o i.log)
                    ELSE Out(Ok(IsNotNull(i.res.val)), self \o i.log)
          [] e.kind = "Identifier" -> Out(Ok(Column(e.id.value)), self)
          [] e.kind = "Value" ->
                LET v == TryFromValue(e.v)
                    vlog == self \o <<Event("value", at)>>
                IN  IF ~IsOk(v) THEN Out(v, vlog)
                    ELSE Out(Ok(Literal(v.val)), vlog)
          [] OTHER -> Out(Err("expr is not supported"), self)

MaxNodes == 2

IdentA == Ident(<<"a">>, "")
IdentB == Ident(<<"b">>, "")
IdentQuoted == Ident(<<"c">>, "\"")

\* The leaves and operators composed into trees: a column, a number, a
\* number whose text is no number, a string literal, an unsupported node;
\* two supported operators and an unsupported one.
CoreLeaves ==
    { SqlIdentifier(IdentA),
      SqlValueExpr(SqlNumber(<<"5">>)),
      SqlValueExpr(SqlNumber(<<"a">>)),
      SqlValueExpr(SqlString(<<"x">>)),
      SqlFunction }

OtherLeaves ==
    { SqlWildcard,
      SqlIdentifier(IdentQuoted),
      SqlValueExpr(SqlBoolean(TRUE)),
      SqlValueExpr(SqlNull),
      SqlValueExpr(SqlNumber(<<"1", ".", "5">>)),
      SqlValueExpr(SqlNumber(<<".">>)),
      SqlValueExpr(SqlNumber(<<>>)) }

CoreOperators == {"Gt", "And", "Xor"}

\* The trees over CoreLeaves with exactly n interior nodes.
RECURSIVE SqlExprsOfSize(_)
SqlExprsOfSize(n) ==
    IF n = 0 THEN CoreLeaves
    ELSE LET inner == SqlExprsOfSize(n - 1)
         IN  {SqlIsNull(e) : e \in inner} \cup {SqlIsNotNull(e) : e \in inner}
             \cup UNION { {SqlBinaryOp(l, o, r) :
                              l \in SqlExprsOfSize(i), o \in CoreOperators,
                              r \in SqlExprsOfSize(n - 1 - i)} : i \in 0..(n - 1) }

SqlExprs ==
    UNION {SqlExprsOfSize(n) : n \in 0..MaxNodes}
    \cup OtherLeaves
    \cup {SqlBinaryOp(SqlIdentifier(IdentA), o, SqlValueExpr(SqlNumber(<<"5">>))) :
             o \in SupportedOperators}

\* Expression(Box::new(e)).try_into(), called on its own.
TranslateExpression ==
    /\ pc = "expression"
    /\ eres' = TryFromExpression(expr, <<>>)
    /\ pc' = "translated"
    /\ UNCHANGED <<expr, stmt, sres, ast, name, fres, fetchLog, loaded, plan, qres>>

InitExpr ==
    /\ pc = "expression"
    /\ expr \in SqlExprs
    /\ eres = Out(Pending, <<>>)
    /\ stmt = Idle /\ sres = Out(Pending, <<>>) /\ ast = Idle /\ name = <<>> /\ fres = Pending
    /\ fetchLog = <<>> /\ loaded = FALSE /\ plan = <<>> /\ qres = Pending

NextExpr == TranslateExpression

SpecExpr == InitExpr /\ [][NextExpr]_vars

\* The node of tree e reached by path at.
RECURSIVE NodeAt(_, _)
NodeAt(e, at) ==
    IF at = <<>> THEN e
    ELSE CASE Head(at) = "left" -> NodeAt(e.left, Tail(at))
           [] Head(at) = "right" -> NodeAt(e.right, Tail(at))
           [] Head(at) = "inner" -> NodeAt(e.expr, Tail(at))

\* Every conversion a tree holds, in the order left operand, operator, right
\* operand at each binary node, whatever their outcomes.
RECURSIVE Traversal(_, _)
Traversal(e, at) ==
    CASE e.kind = "BinaryOp" ->
            <<Event("expr", at)>> \o Traversal(e.left, Append(at, "left"))
                \o <<Event("op", at)>> \o Traversal(e.right, Append(at, "right"))
      [] e.kind \in {"IsNull", "IsNotNull"} ->
            <<Event("expr", at)>> \o Traversal(e.expr, Append(at, "inner"))
      [] e.kind = "Value" -> <<Event("expr", at), Event("value", at)>>
      [] OTHER -> <<Event("expr", at)>>

\* The outcome of one conversion taken alone, its operands apart.
OwnResult(e, ev) ==
    LET n == NodeAt(e, ev.at)
    IN  CASE ev.what = "op" -> TryFromOperation(n.op)
          [] ev.what = "value" -> TryFromValue(n.v)
          [] OTHER ->
                IF n.kind \in {"BinaryOp", "Wildcard", "IsNull", "IsNotNull",
                               "Identifier", "Value"}
                THEN Ok(<<>>) ELSE Err("expr is not supported")

\* The position in a traversal of its first conversion that fails, 0 if none.
FirstFailure(e, t) ==
    IF \E i \in DOMAIN t : ~IsOk(OwnResult(e, t[i]))
    THEN CHOOSE i \in DOMAIN t :
            /\ ~IsOk(OwnResult(e, t[i]))
            /\ \A j \in 1..(i - 1) : IsOk(OwnResult(e, t[j]))
    ELSE 0

\* C10: translating an expression attempts its conversions in the order left
\* operand, operator, right operand at every binary node, at every depth, and
\* stops at the first that fails: the conversions attempted are exactly those
\* of the traversal up to and including its first failure, none after it, and
\* the failure returned is that one's.
C10_LeftOperatorRightShortCircuit ==
    pc = "translated" =>
        LET t == Traversal(expr, <<>>)
            k == FirstFailure(expr, t)
        IN  IF k = 0
            THEN IsOk(eres.res) /\ eres.log = t
            ELSE /\ eres.log = SubSeq(t, 1, k)
                 /\ eres.res = OwnResult(expr, t[k])

\* A nested binary node whose own operator is unsupported and whose right
\* operand is unsupported too, under a root whose right operand also fails:
\* the operator's error is returned and nothing to its right was attempted.
C10_Witness ==
    /\ pc = "translated"
    /\ expr.kind = "BinaryOp"
    /\ expr.left.kind = "BinaryOp"
    /\ expr.left.left = SqlIdentifier(IdentA)
    /\ expr.left.op = "Xor"
    /\ expr.left.right = SqlFunction
    /\ expr.right = SqlFunction
    /\ eres.res = Err("Operator is not supported")
    /\ eres.log = << Event("expr", <<>>), Event("expr", <<"left">>),
                     Event("expr", <<"left", "left">>), Event("op", <<"left">>) >>

\* C4: a numeric literal whose text is no floating-point number makes the
\* literal mapper return an error value; it does not terminate abnormally
\* and does not substitute a value.
C4_BadNumberIsErrorValue ==
    (/\ pc = "translated"
     /\ expr.kind = "Value"
     /\ expr.v.kind = "Number"
     /\ ~ParseF64(expr.v.text).ok)
        => IsErr(eres.res)

---------------------------------------------------------------------------
(* The clause translators: src/src/convert.rs                              *)

\* Option<T>: None, or Some(x).
None == <<>>
Some(x) == <<x>>
IsSome(o) == o # <<>>
Unwrap(o) == o[1]

SelectUnnamedExpr(e) == [kind |-> "UnnamedExpr", expr |-> e]
SelectExprWithAlias(e, alias) == [kind |-> "ExprWithAlias", expr |-> e, alias |-> alias]
SelectQualifiedWildcard(idents) == [kind |-> "QualifiedWildcard", name |-> idents]
SelectWildcard == [kind |-> "Wildcard"]

TableFactorTable(idents) == [kind |-> "Table", name |-> idents]
TableFactorDerived == [kind |-> "Derived", name |-> <<>>]
TableWithJoins(relation, joins) == [relation |-> relation, joins |-> joins]

OrderByExpr(e, asc) == [expr |-> e, asc |-> asc]
SqlOffset(e) == [value |-> e]

\* impl TryFrom<Projection> for Expr
TryFromProjection(p) ==
    CASE p.kind = "UnnamedExpr" /\ p.expr.kind = "Identifier" ->
            Ok(col(IdentToString(p.expr.id)))
      [] p.kind = "ExprWithAlias" /\ p.expr.kind = "Identifier" ->
            Ok(Alias(Column(IdentToString(p.expr.id)), IdentToString(p.alias)))
      [] p.kind = "QualifiedWildcard" -> Ok(col(ObjectNameToString(p.name)))
      [] p.kind = "Wildcard" -> Ok(col(<<"*">>))
      [] OTHER -> Err("Projection not supported")

\* Source resolution that accepts the first table of any non-empty FROM list.
TryFromSource_FirstTable(from) ==
    IF Len(from) = 0
    THEN Err("We only support single data source at the moment")
    ELSE IF from[1].relation.kind = "Table"
    THEN IF from[1].relation.name = <<>>
         THEN Panic("called Option::unwrap() on a None value")
         ELSE Ok(from[1].relation.name[1].value)
    ELSE Err("we only support table")

\* impl TryFrom<Source> for &str
TryFromSource(from) ==
    IF Len(from) # 1
    THEN Err("We only support single data source at the moment")
    ELSE IF from[1].joins # <<>>
    THEN Err("We do not support joint data source at the moment")
    ELSE IF from[1].relation.kind = "Table"
    THEN IF from[1].relation.name = <<>>
         THEN Panic("called Option::unwrap() on a None value")
         ELSE Ok(from[1].relation.name[1].value)
    ELSE Err("we only support table")

\* impl TryFrom<Order> for (String, bool)
TryFromOrder(o) ==
    IF o.expr.kind = "Identifier"
    THEN Ok(<<IdentToString(o.expr.id), ~(IF IsSome(o.asc) THEN Unwrap(o.asc) ELSE TRUE)>>)
    ELSE Err("We only support identifier for order by")

I64Zero == Parsed(FALSE, <<"0">>)

\* impl From<Offset> for i64
FromOffset(offset) ==
    IF offset.value.kind = "Value" /\ offset.value.v.kind = "Number"
    THEN LET n == ParseI64(offset.value.v.text)
         IN  IF n.ok THEN n ELSE I64Zero
    ELSE I64Zero

\* The limit defaulting to 0, as the offset does, where the text is no usize.
FromLimit_DefaultZero(l) ==
    IF l.kind = "Value" /\ l.v.kind = "Number"
    THEN LET n == ParseUsize(l.v.text)
         IN  IF n.ok THEN n.num ELSE <<"0">>
    ELSE <<"0">>

\* impl From<Limit> for usize (line 213 reads v.parse.unwarap_or(usize::MAX);
\* it is taken as the v.parse().unwrap_or(usize::MAX) it misspells).
FromLimit(l) ==
    IF l.kind = "Value" /\ l.v.kind = "Number"
    THEN LET n == ParseUsize(l.v.text)
         IN  IF n.ok THEN n.num ELSE USIZE_MAX
    ELSE USIZE_MAX

---------------------------------------------------------------------------
(* The statement translator: src/src/convert.rs                            *)

\* A statement: Statement::Query with a Select or another body, or any other
\* statement.  The clause fields are those of the query and its select.
Query(body, from, selection, projection, order_by, offset, limit) ==
    [kind |-> "Query", body |-> body, from |-> from, selection |-> selection,
     projection |-> projection, order_by |-> order_by, offset |-> offset,
     limit |-> limit]

OtherStatement ==
    [kind |-> "Other", body |-> "", from |-> <<>>, selection |-> None,
     projection |-> <<>>, order_by |-> <<>>, offset |-> None, limit |-> None]

RECURSIVE TryFromProjections(_, _, _)

\* The projection loop pushing no entry for a wildcard.
TryFromProjections_SkipWildcard(items, i, selection) ==
    IF i > Len(items) THEN Out(Ok(selection), <<>>)
    ELSE LET r == TryFromProjection(items[i])
             ev == <<Event("projection", i)>>
         IN  IF ~IsOk(r) THEN Out(r, ev)
             ELSE LET rest == TryFromProjections(items, i + 1,
                                  IF r.val = Wildcard THEN selection
                                  ELSE Append(selection, r.val))
                  IN  Out(rest.res, ev \o rest.log)

\* for p in projection { let expr = Projection(p).try_into()?; selection.push(expr); }
\* from item i on, with the expressions pushed so far.
TryFromProjections(items, i, selection) ==
    IF i > Len(items) THEN Out(Ok(selection), <<>>)
    ELSE LET r == TryFromProjection(items[i])
             ev == <<Event("projection", i)>>
         IN  IF ~IsOk(r) THEN Out(r, ev)
             ELSE LET rest == TryFromProjections(items, i + 1, Append(selection, r.val))
                  IN  Out(rest.res, ev \o rest.log)

\* for expr in orders { order_by.push(Order(expr).try_into()?); }
RECURSIVE TryFromOrders(_, _, _)
TryFromOrders(items, i, order_by) ==
    IF i > Len(items) THEN Out(Ok(order_by), <<>>)
    ELSE LET r == TryFromOrder(items[i])
             ev == <<Event("order_by", i)>>
         IN  IF ~IsOk(r) THEN Out(r, ev)
             ELSE LET rest == TryFromOrders(items, i + 1, Append(order_by, r.val))
                  IN  Out(rest.res, ev \o rest.log)

\* One clause of the query translated: its value, and the conversions
\* attempted for it.
TranslateClause(q, clause) ==
    CASE clause = "source" -> Out(TryFromSource(q.from), <<Event("source", 0)>>)
      [] clause = "where" ->
            IF IsSome(q.selection)
            THEN LET e == TryFromExpression(Unwrap(q.selection), <<>>)
                 IN  Out(IF IsOk(e.res) THEN Ok(Some(e.res.val)) ELSE e.res,
                         <<Event("where", 0)>>)
            ELSE Out(Ok(None), <<>>)
      [] clause = "projection" -> TryFromProjections(q.projection, 1, <<>>)
      [] clause = "order_by" -> TryFromOrders(q.order_by, 1, <<>>)
      [] clause = "offset" ->
            IF IsSome(q.offset)
            THEN Out(Ok(Some(FromOffset(Unwrap(q.offset)))), <<Event("offset", 0)>>)
            ELSE Out(Ok(None), <<>>)
      [] clause = "limit" ->
            IF IsSome(q.limit)
            THEN Out(Ok(Some(FromLimit(Unwrap(q.limit)))), <<Event("limit", 0)>>)
            ELSE Out(Ok(None), <<>>)

\* The clauses with the projection list translated before the source.
ClauseOrder_ProjectionFirst ==
    <<"projection", "source", "where", "order_by", "offset", "limit">>

\* The order in which try_from translates the clauses (lines 49 to 67).
ClauseOrder == <<"source", "where", "projection", "order_by", "offset", "limit">>

\* The clauses from position i on, each ? returning at the first failure;
\* vals holds the values of the clauses translated so far.
RECURSIVE TranslateClauses(_, _, _)
TranslateClauses(q, i, vals) ==
    IF i > Len(ClauseOrder)
    THEN Out(Ok([selection |-> vals["projection"], condition |-> vals["where"],
                 source |-> vals["source"], order_by |-> vals["order_by"],
                 offset |-> vals["offset"], limit |-> vals["limit"]]), <<>>)
    ELSE LET c == TranslateClause(q, ClauseOrder[i])
         IN  IF ~IsOk(c.res) THEN c
             ELSE LET rest == TranslateClauses(q, i + 1, (ClauseOrder[i] :> c.res.val) @@ vals)
                  IN  Out(rest.res, c.log \o rest.log)

\* impl TryFrom<&Statement> for Sql
TryFromStatement(sql) ==
    IF sql.kind = "Query"
    THEN IF sql.body = "Select"
         THEN TranslateClauses(sql, 1, <<>>)
         ELSE Out(Err("We only support Select Query at the moment"), <<>>)
    ELSE Out(Err("We only support Query at the moment"), <<>>)

MaxProjection == 2
MaxOrderBy == 2

\* The sequences over items of length at most n.
RECURSIVE SeqsUpTo(_, _)
SeqsUpTo(items, n) ==
    IF n = 0 THEN {<<>>}
    ELSE LET shorter == SeqsUpTo(items, n - 1)
         IN  shorter \cup {Append(q, x) : q \in {u \in shorter : Len(u) = n - 1}, x \in items}

IdentT == Ident(<<"t">>, "")
IdentU == Ident(<<"u">>, "")
TableT == TableWithJoins(TableFactorTable(<<IdentT>>), <<>>)
TableU == TableWithJoins(TableFactorTable(<<IdentU>>), <<>>)
TableTJoinU == TableWithJoins(TableFactorTable(<<IdentT>>), <<"JOIN u">>)

SqlA == SqlIdentifier(IdentA)
SqlFive == SqlValueExpr(SqlNumber(<<"5">>))
SqlAGtFive == SqlBinaryOp(SqlA, "Gt", SqlFive)

TwoPow63 == I64_MIN_MAGNITUDE
TwoPow64 ==
    <<"1", "8", "4", "4", "6", "7", "4", "4", "0", "7",
      "3", "7", "0", "9", "5", "5", "1", "6", "1", "6">>

\* The statements in which every clause varies together: each clause absent
\* (where it may be), supported, or unsupported.
FromCore == { <<>>, <<TableT>>, <<TableTJoinU>>, <<TableT, TableU>> }
WhereCore == { None, Some(SqlAGtFive), Some(SqlFunction) }
ProjectionItemsCore ==
    { SelectUnnamedExpr(SqlA), SelectWildcard, SelectUnnamedExpr(SqlFunction) }
OrderItemsCore ==
    { OrderByExpr(SqlA, None), OrderByExpr(SqlIdentifier(IdentB), Some(FALSE)),
      OrderByExpr(SqlFunction, None) }
OffsetCore ==
    { None, Some(SqlOffset(SqlFive)),
      Some(SqlOffset(SqlValueExpr(SqlString(<<"a", "b", "c">>)))) }
LimitCore ==
    { None, Some(SqlValueExpr(SqlNumber(<<"1", "0">>))),
      Some(SqlValueExpr(SqlNumber(<<"1", ".", "5">>))),
      Some(SqlValueExpr(SqlString(<<"a", "b", "c">>))) }

CoreStatements ==
    { Query("Select", f, w, p, o, off, lim) :
        f \in FromCore, w \in WhereCore,
        p \in SeqsUpTo(ProjectionItemsCore, MaxProjection),
        o \in SeqsUpTo(OrderItemsCore, MaxOrderBy),
        off \in OffsetCore, lim \in LimitCore }

\* SELECT a FROM t, and the statements that differ from it in one clause.
BaseStatement ==
    Query("Select", <<TableT>>, None, <<SelectUnnamedExpr(SqlA)>>, <<>>, None, None)

FromVariants ==
    { <<TableWithJoins(TableFactorDerived, <<>>)>>,
      <<TableWithJoins(TableFactorTable(<<>>), <<>>)>>,
      <<TableWithJoins(TableFactorTable(<<IdentU, IdentT>>), <<>>)>>,
      <<TableWithJoins(TableFactorTable(<<IdentQuoted>>), <<>>)>>,
      <<TableWithJoins(TableFactorDerived, <<"JOIN u">>)>> }
WhereVariants ==
    { Some(SqlValueExpr(SqlNumber(<<"a">>))),
      Some(SqlBinaryOp(SqlAGtFive, "And", SqlIsNull(SqlIdentifier(IdentQuoted)))),
      Some(SqlBinaryOp(SqlA, "Xor", SqlFunction)),
      Some(SqlValueExpr(SqlString(<<"x">>))) }
ProjectionVariants ==
    { <<SelectExprWithAlias(SqlA, IdentB)>>,
      <<SelectExprWithAlias(SqlIdentifier(IdentQuoted), IdentQuoted)>>,
      <<SelectExprWithAlias(SqlFunction, IdentB)>>,
      <<SelectQualifiedWildcard(<<IdentT>>)>>,
      <<SelectQualifiedWildcard(<<IdentU, IdentT>>), SelectWildcard>>,
      <<SelectUnnamedExpr(SqlIdentifier(IdentQuoted))>>,
      <<SelectUnnamedExpr(SqlIdentifier(Ident(<<"*">>, "\"")))>>,
      <<SelectUnnamedExpr(SqlAGtFive)>> }
OrderVariants ==
    { <<OrderByExpr(SqlA, Some(TRUE))>>,
      <<OrderByExpr(SqlIdentifier(IdentQuoted), Some(TRUE))>>,
      <<OrderByExpr(SqlIdentifier(IdentB), Some(FALSE)),
        OrderByExpr(SqlIdentifier(IdentQuoted), None)>>,
      <<OrderByExpr(SqlAGtFive, Some(FALSE))>> }
OffsetVariants ==
    { Some(SqlOffset(SqlValueExpr(SqlNumber(t)))) :
        t \in { <<"0", "0", "7">>, <<"1", ".", "5">>, <<"-", "3">>, <<>>,
                I64_MAX, TwoPow63 } }
    \cup { Some(SqlOffset(SqlA)), Some(SqlOffset(SqlValueExpr(SqlNull))) }
LimitVariants ==
    { Some(SqlValueExpr(SqlNumber(t))) :
        t \in { <<"0", "0", "7">>, <<"0">>, <<"-", "3">>, <<>>, I64_MAX, TwoPow63,
                USIZE_MAX, TwoPow64 } }
    \cup { Some(SqlA), Some(SqlValueExpr(SqlNull)) }

VariantStatements ==
    { [BaseStatement EXCEPT !.from = f] : f \in FromVariants }
    \cup { [BaseStatement EXCEPT !.selection = w] : w \in WhereVariants }
    \cup { [BaseStatement EXCEPT !.projection = p] : p \in ProjectionVariants }
    \cup { [BaseStatement EXCEPT !.order_by = o, !.offset = off, !.limit = lim] :
             o \in OrderVariants \cup {<<>>}, off \in OffsetVariants \cup {None},
             lim \in LimitVariants \cup {None} }
    \cup { OtherStatement, [BaseStatement EXCEPT !.body = "SetOperation"] }

Statements == CoreStatements \cup VariantStatements

\* let sql: Sql = (&statement).try_into(), called on its own.
TranslateStatement ==
    /\ pc = "statement"
    /\ sres' = TryFromStatement(stmt)
    /\ pc' = "converted"
    /\ UNCHANGED <<expr, eres, stmt, ast, name, fres, fetchLog, loaded, plan, qres>>

InitConvert ==
    /\ pc = "statement"
    /\ stmt \in Statements
    /\ sres = Out(Pending, <<>>)
    /\ expr = Idle /\ eres = Out(Pending, <<>>) /\ ast = Idle /\ name = <<>>
    /\ fres = Pending /\ fetchLog = <<>> /\ loaded = FALSE /\ plan = <<>> /\ qres = Pending

NextConvert == TranslateStatement

SpecConvert == InitConvert /\ [][NextConvert]_vars

IsSelect(s) == s.kind = "Query" /\ s.body = "Select"

\* C1: a select whose FROM list has no entry or more than one, or whose single
\* entry carries a join, translates to the error of source resolution and to
\* no query record; the translation succeeds only for exactly one table
\* reference without joins.
C1_SingleSourceNoJoin ==
    (pc = "converted" /\ IsSelect(stmt)) =>
        /\ Len(stmt.from) # 1 =>
              sres.res = Err("We only support single data source at the moment")
        /\ (Len(stmt.from) = 1 /\ stmt.from[1].joins # <<>>) =>
              sres.res = Err("We do not support joint data source at the moment")
        /\ IsOk(sres.res) => (Len(stmt.from) = 1 /\ stmt.from[1].joins = <<>>)

\* Two FROM sources, with a WHERE clause and a projection item that are
\* unsupported as well: the source error is what is returned.
C1_Witness ==
    /\ pc = "converted"
    /\ stmt.from = <<TableT, TableU>>
    /\ stmt.selection = Some(SqlFunction)
    /\ stmt.projection = <<SelectUnnamedExpr(SqlFunction)>>
    /\ sres.res = Err("We only support single data source at the moment")

\* A LIMIT expression that is a number whose text parses as a usize.
CleanLimit(l) == l.kind = "Value" /\ l.v.kind = "Number" /\ ParseUsize(l.v.text).ok

\* The statement without its LIMIT clause.
WithoutLimit(s) == [s EXCEPT !.limit = None]

\* C2 as stated: a statement whose LIMIT is present and malformed, and which
\* translates without the LIMIT clause, translates, and its record has
\* limit = None.
C2_MalformedLimitIsNone ==
    (/\ pc = "converted" /\ IsSelect(stmt)
     /\ IsSome(stmt.limit) /\ ~CleanLimit(Unwrap(stmt.limit))
     /\ IsOk(TryFromStatement(WithoutLimit(stmt)).res))
        => (IsOk(sres.res) /\ sres.res.val.limit = None)

\* C2 as amended: a present, malformed LIMIT never makes the translation fail
\* (the statement translates exactly when it does without the clause), and
\* the record's limit is Some(usize::MAX), not None.
C2_MalformedLimitIsUsizeMax ==
    (/\ pc = "converted" /\ IsSelect(stmt)
     /\ IsSome(stmt.limit) /\ ~CleanLimit(Unwrap(stmt.limit)))
        => /\ sres.res.kind = TryFromStatement(WithoutLimit(stmt)).res.kind
           /\ IsOk(sres.res) => sres.res.val.limit = Some(USIZE_MAX)

\* LIMIT 'abc' on a statement that translates.
C2_Witness ==
    /\ pc = "converted"
    /\ stmt.limit = Some(SqlValueExpr(SqlString(<<"a", "b", "c">>)))
    /\ IsOk(sres.res)
    /\ sres.res.val.limit = Some(USIZE_MAX)

\* C5 as stated: the record of a successful translation has a non-empty
\* selection, whatever the statement.
C5_SelectionNonEmpty ==
    (pc = "converted" /\ IsOk(sres.res)) => Len(sres.res.val.selection) >= 1

\* C5 as amended: the record of a successful translation has one selection
\* entry per projection item, in order, a wildcard counting as one; it is
\* non-empty exactly when the projection list is.
C5_SelectionMatchesProjection ==
    (pc = "converted" /\ IsOk(sres.res)) =>
        /\ Len(sres.res.val.selection) = Len(stmt.projection)
        /\ \A i \in DOMAIN stmt.projection :
              Ok(sres.res.val.selection[i]) = TryFromProjection(stmt.projection[i])

\* SELECT *, a: two entries, the wildcard one of them.
C5_Witness ==
    /\ pc = "converted"
    /\ stmt.projection = <<SelectWildcard, SelectUnnamedExpr(SqlA)>>
    /\ IsOk(sres.res)
    /\ sres.res.val.selection = <<Wildcard, Column(<<"a">>)>>

\* Every conversion the clauses of a select hold, in the order source, WHERE,
\* projection items, ORDER BY items, OFFSET, LIMIT, whatever their outcomes.
ClauseEvents(q) ==
    <<Event("source", 0)>>
        \o (IF IsSome(q.selection) THEN <<Event("where", 0)>> ELSE <<>>)
        \o [i \in 1..Len(q.projection) |-> Event("projection", i)]
        \o [i \in 1..Len(q.order_by) |-> Event("order_by", i)]
        \o (IF IsSome(q.offset) THEN <<Event("offset", 0)>> ELSE <<>>)
        \o (IF IsSome(q.limit) THEN <<Event("limit", 0)>> ELSE <<>>)

\* Whether one of those conversions, taken alone, fails, and with what.
OwnClauseFailure(q, ev) ==
    CASE ev.what = "source" -> TryFromSource(q.from)
      [] ev.what = "where" -> TryFromExpression(Unwrap(q.selection), <<>>).res
      [] ev.what = "projection" -> TryFromProjection(q.projection[ev.at])
      [] ev.what = "order_by" -> TryFromOrder(q.order_by[ev.at])
      [] OTHER -> Ok(<<>>)

FirstClauseFailure(q, t) ==
    IF \E i \in DOMAIN t : ~IsOk(OwnClauseFailure(q, t[i]))
    THEN CHOOSE i \in DOMAIN t :
            /\ ~IsOk(OwnClauseFailure(q, t[i]))
            /\ \A j \in 1..(i - 1) : IsOk(OwnClauseFailure(q, t[j]))
    ELSE 0

\* C6: the clauses of a select are translated in the order source, WHERE,
\* projection list, ORDER BY list, OFFSET, LIMIT, up to and including the
\* first that fails and none after it; the failure returned is that one's
\* alone; and the OFFSET and LIMIT clauses never fail.
C6_ClauseOrderFirstFailure ==
    (pc = "converted" /\ IsSelect(stmt)) =>
        LET t == ClauseEvents(stmt)
            k == FirstClauseFailure(stmt, t)
        IN  /\ IF k = 0
               THEN IsOk(sres.res) /\ sres.log = t
               ELSE /\ sres.log = SubSeq(t, 1, k)
                    /\ sres.res = OwnClauseFailure(stmt, t[k])
            /\ ~IsOk(sres.res) =>
                  sres.log[Len(sres.log)].what \notin {"offset", "limit"}

\* A supported source, then an unsupported WHERE, an unsupported projection
\* item and an unsupported ORDER BY item, with a malformed OFFSET and LIMIT:
\* the WHERE error is returned and nothing after the WHERE was translated.
C6_Witness ==
    /\ pc = "converted"
    /\ stmt.from = <<TableT>>
    /\ stmt.selection = Some(SqlFunction)
    /\ stmt.projection = <<SelectUnnamedExpr(SqlFunction)>>
    /\ stmt.order_by = <<OrderByExpr(SqlFunction, None)>>
    /\ stmt.offset = Some(SqlOffset(SqlValueExpr(SqlString(<<"a", "b", "c">>))))
    /\ stmt.limit = Some(SqlValueExpr(SqlString(<<"a", "b", "c">>)))
    /\ sres.res = Err("expr is not supported")
    /\ sres.log = <<Event("source", 0), Event("where", 0)>>

\* An OFFSET expression that is a number whose text parses as a non-negative i64.
CleanOffset(o) ==
    /\ o.value.kind = "Value" /\ o.value.v.kind = "Number"
    /\ ParseI64(o.value.v.text).ok /\ ~ParseI64(o.value.v.text).neg

\* C8: when every ORDER BY item is an identifier, the record's order_by lists,
\* item by item and in order, the identifier's name and the negation of its
\* ascending flag (false when the flag is absent); a parseable LIMIT n and
\* OFFSET m give limit = Some(n) and offset = Some(m); absent clauses give
\* order_by = [], limit = None, offset = None.
C8_OrderByLimitOffset ==
    (/\ pc = "converted" /\ IsOk(sres.res)
     /\ \A i \in DOMAIN stmt.order_by : stmt.order_by[i].expr.kind = "Identifier")
        => /\ Len(sres.res.val.order_by) = Len(stmt.order_by)
           /\ \A i \in DOMAIN stmt.order_by :
                 sres.res.val.order_by[i] =
                    << stmt.order_by[i].expr.id.value,
                       IF stmt.order_by[i].asc = None THEN FALSE
                       ELSE ~Unwrap(stmt.order_by[i].asc) >>
           /\ (IsSome(stmt.limit) /\ CleanLimit(Unwrap(stmt.limit))) =>
                 sres.res.val.limit =
                    Some(StripZeros(Unwrap(stmt.limit).v.text))
           /\ (IsSome(stmt.offset) /\ CleanOffset(Unwrap(stmt.offset))) =>
                 sres.res.val.offset =
                    Some(Parsed(FALSE, StripZeros(Unwrap(stmt.offset).value.v.text)))
           /\ stmt.limit = None => sres.res.val.limit = None
           /\ stmt.offset = None => sres.res.val.offset = None

---------------------------------------------------------------------------
(* The fetcher: src/queryer/src/fetcher.rs                                 *)

MaxTail == 4

TailChars == {":", "/", "x", "U3"}

RECURSIVE TextsUpTo(_, _)
TextsUpTo(chars, n) ==
    IF n = 0 THEN {<<>>}
    ELSE LET shorter == TextsUpTo(chars, n - 1)
         IN  shorter \cup {<<c>> \o t : c \in chars, t \in {u \in shorter : Len(u) = n - 1}}

SourceHeads ==
    { <<>>, <<"h", "t", "t">>, HTTP, <<"f", "t", "p">>, <<"f", "i", "l">>, FILE }

\* The source strings retrieve_data is called with.
Sources == {h \o t : h \in SourceHeads, t \in TextsUpTo(TailChars, MaxTail)}

CONTENT == <<"c", "s", "v">>

\* retrieve_data: match &name[..4] { "http" => .., "file" => .., _ => Err }.
\* The slice panics when name is shorter than four bytes or byte 4 falls
\* inside a character.
RetrieveData ==
    /\ pc = "retrieve"
    /\ IF ~CanSlice(name, 4)
       THEN /\ fres' = Panic("byte index 4 is out of bounds or not a char boundary")
            /\ pc' = "retrieved"
       ELSE LET scheme == SliceTo(name, 4)
            IN  IF scheme = HTTP
                THEN /\ pc' = "url_fetch"
                     /\ fres' = fres
                ELSE IF scheme = FILE
                THEN /\ pc' = "file_fetch"
                     /\ fres' = fres
                ELSE /\ fres' = Err("We only support http/https/file at the moment")
                     /\ pc' = "retrieved"
    /\ UNCHANGED <<expr, eres, stmt, sres, ast, name, fetchLog, loaded, plan, qres>>

\* UrlFetcher::fetch: reqwest::get(self.0).await?.text().await?
UrlFetcherFetch ==
    /\ pc = "url_fetch"
    /\ fetchLog' = Append(fetchLog, [op |-> "net", arg |-> name])
    /\ \E ok \in BOOLEAN :
          fres' = IF ok THEN Ok(CONTENT) ELSE Err("FetchError")
    /\ pc' = "retrieved"
    /\ UNCHANGED <<expr, eres, stmt, sres, ast, name, loaded, plan, qres>>

\* FileFetcher::fetch: let path = &self.0[7..]; fs::read_to_string(path).await?
\* The slice panics when the source is shorter than seven bytes or byte 7
\* falls inside a character; reading the empty path fails.
FileFetcherFetch ==
    /\ pc = "file_fetch"
    /\ IF ~CanSlice(name, 7)
       THEN /\ fres' = Panic("byte index 7 is out of bounds or not a char boundary")
            /\ fetchLog' = fetchLog
       ELSE LET path == SliceFrom(name, 7)
            IN  /\ fetchLog' = Append(fetchLog, [op |-> "file", arg |-> path])
                /\ \E ok \in BOOLEAN :
                      fres' = IF ok /\ path # <<>> THEN Ok(CONTENT) ELSE Err("FetchError")
    /\ pc' = "retrieved"
    /\ UNCHANGED <<expr, eres, stmt, sres, ast, name, loaded, plan, qres>>

InitFetch ==
    /\ pc = "retrieve"
    /\ name \in Sources
    /\ fres = Pending
    /\ fetchLog = <<>>
    /\ expr = Idle /\ eres = [res |-> Pending, log |-> <<>>] /\ stmt = Idle /\ sres = Out(Pending, <<>>)
    /\ ast = Idle /\ loaded = FALSE /\ plan = <<>> /\ qres = Pending

NextFetch == RetrieveData \/ UrlFetcherFetch \/ FileFetcherFetch

SpecFetch == InitFetch /\ [][NextFetch]_vars

\* C3: a source that begins with neither http nor file, of any length, gets
\* the unsupported-scheme error value from retrieve_data, and nothing was
\* fetched before it.
C3_UnsupportedSchemeRejected ==
    (pc = "retrieved" /\ ~StartsWith(name, HTTP) /\ ~StartsWith(name, FILE))
        => (IsErr(fres) /\ fetchLog = <<>>)

\* C9: a file is read only for a source that begins with exactly file://,
\* the path read being the source less those 7 characters; a source with any
\* other prefix that is not http is rejected with an error value, without a
\* read and without terminating abnormally.
C9_FileSchemeExact ==
    pc = "retrieved" =>
        /\ \A i \in DOMAIN fetchLog :
              fetchLog[i].op = "file" =>
                  /\ StartsWith(name, FILE_SCHEME)
                  /\ fetchLog[i].arg = SubSeq(name, 8, Len(name))
        /\ (~StartsWith(name, HTTP) /\ ~StartsWith(name, FILE_SCHEME))
              => (IsErr(fres) /\ fetchLog = <<>>)

---------------------------------------------------------------------------
(* The orchestrator: query() of src/src/lib.rs                             *)

\* What the external parser returns: an error, or a list of statements.
ParseError == [ok |-> FALSE, stmts |-> <<>>]
Parsed_Statements(stmts) == [ok |-> TRUE, stmts |-> stmts]

\* One step of the lazy pipeline.
Step(op, arg) == [op |-> op, arg |-> arg]

\* match condition { None => lazy(), Some(expr) => lazy().filter(expr) }
FilterSteps(sql) ==
    IF IsSome(sql.condition) THEN <<Step("filter", Unwrap(sql.condition))>> ELSE <<>>

\* order_by.into_iter().fold(filtered, |acc, (col, desc)| acc.sort(&col, desc))
SortSteps(sql) == [i \in 1..Len(sql.order_by) |-> Step("sort", sql.order_by[i])]

\* The slice applied only when both offset and limit are present.
SliceSteps_OnlyWhenBoth(sql) ==
    IF IsSome(sql.offset) /\ IsSome(sql.limit)
    THEN <<Step("slice", <<Unwrap(sql.offset), Unwrap(sql.limit)>>)>>
    ELSE <<>>

\* if offset.is_some() || limit.is_some() {
\*     filtered = filtered.slice(offset.unwrap_or(0), limit.unwrap_or(usize::MAX)) }
SliceSteps(sql) ==
    IF IsSome(sql.offset) \/ IsSome(sql.limit)
    THEN <<Step("slice",
                << IF IsSome(sql.offset) THEN Unwrap(sql.offset) ELSE I64Zero,
                   IF IsSome(sql.limit) THEN Unwrap(sql.limit) ELSE USIZE_MAX >>)>>
    ELSE <<>>

\* filtered.select(selection)
SelectSteps(sql) == <<Step("select", sql.selection)>>

\* Parser::parse_sql(&TryDialect::default(), sql.as_ref())?
QueryParse ==
    /\ pc = "query"
    /\ IF ast.ok
       THEN pc' = "single" /\ qres' = qres
       ELSE pc' = "done" /\ qres' = Err("ParseError")
    /\ UNCHANGED <<expr, eres, stmt, sres, ast, name, fres, fetchLog, loaded, plan>>

\* if ast.len() != 1 { return Err(..) }; let sql = &ast[0];
QuerySingle ==
    /\ pc = "single"
    /\ IF Len(ast.stmts) # 1
       THEN /\ pc' = "done"
            /\ qres' = Err("Only support single sql at the moment")
            /\ stmt' = stmt
       ELSE /\ pc' = "translate"
            /\ qres' = qres
            /\ stmt' = ast.stmts[1]
    /\ UNCHANGED <<expr, eres, sres, ast, name, fres, fetchLog, loaded, plan>>

\* let Sql{selection, condition, source, order_by, offset, limit} = sql.try_into()?;
\* then retrieve_data(source) is called.
QueryTranslate ==
    /\ pc = "translate"
    /\ sres' = TryFromStatement(stmt)
    /\ IF IsOk(sres'.res)
       THEN pc' = "retrieve" /\ name' = sres'.res.val.source /\ qres' = qres
       ELSE pc' = "done" /\ name' = name /\ qres' = sres'.res
    /\ UNCHANGED <<expr, eres, stmt, ast, fres, fetchLog, loaded, plan>>

\* let ds = detect_contend(retrieve_data(source).await?).load()?;
QueryLoad ==
    /\ pc = "retrieved"
    /\ IF ~IsOk(fres)
       THEN pc' = "done" /\ qres' = fres /\ loaded' = loaded
       ELSE \E ok \in BOOLEAN :
               IF ok THEN pc' = "filter" /\ qres' = qres /\ loaded' = TRUE
               ELSE pc' = "done" /\ qres' = Err("LoadError") /\ loaded' = loaded
    /\ UNCHANGED <<expr, eres, stmt, sres, ast, name, fres, fetchLog, plan>>

QueryFilter ==
    /\ pc = "filter"
    /\ plan' = plan \o FilterSteps(sres.res.val)
    /\ pc' = "sort"
    /\ UNCHANGED <<expr, eres, stmt, sres, ast, name, fres, fetchLog, loaded, qres>>

QuerySort ==
    /\ pc = "sort"
    /\ plan' = plan \o SortSteps(sres.res.val)
    /\ pc' = "slice"
    /\ UNCHANGED <<expr, eres, stmt, sres, ast, name, fres, fetchLog, loaded, qres>>

QuerySlice ==
    /\ pc = "slice"
    /\ plan' = plan \o SliceSteps(sres.res.val)
    /\ pc' = "select"
    /\ UNCHANGED <<expr, eres, stmt, sres, ast, name, fres, fetchLog, loaded, qres>>

\* Ok(DataSet(filtered.select(selection).collect()?))
QuerySelectCollect ==
    /\ pc = "select"
    /\ plan' = plan \o SelectSteps(sres.res.val)
    /\ \E ok \in BOOLEAN :
          qres' = IF ok THEN Ok(<<"DataSet">>) ELSE Err("ExecutionError")
    /\ pc' = "done"
    /\ UNCHANGED <<expr, eres, stmt, sres, ast, name, fres, fetchLog, loaded>>

\* The sources named in the FROM clause of the queries run.
QuerySources ==
    { <<"t">>,
      <<"h", "t", "t", "p", ":", "/", "/", "x">>,
      <<"f", "i", "l", "e", ":", "/", "/", "/", "x">>,
      <<"f", "t", "p", ":", "/", "/", "x">> }

QueryStatements ==
    { Query("Select", <<TableWithJoins(TableFactorTable(<<Ident(src, "")>>), <<>>)>>,
            w, p, o, off, lim) :
        src \in QuerySources,
        w \in {None, Some(SqlAGtFive)},
        p \in {<<SelectUnnamedExpr(SqlA)>>, <<SelectWildcard>>},
        o \in SeqsUpTo({OrderByExpr(SqlA, None),
                        OrderByExpr(SqlIdentifier(IdentB), Some(FALSE))}, MaxOrderBy),
        off \in {None, Some(SqlOffset(SqlFive))},
        lim \in {None, Some(SqlValueExpr(SqlNumber(<<"1", "0">>))),
                 Some(SqlValueExpr(SqlString(<<"a", "b", "c">>)))} }
    \cup { OtherStatement,
           [BaseStatement EXCEPT !.from = <<TableT, TableU>>],
           [BaseStatement EXCEPT !.selection = Some(SqlFunction)],
           [BaseStatement EXCEPT !.selection = Some(SqlValueExpr(SqlNumber(<<"a">>)))] }

ParseResults ==
    { ParseError, Parsed_Statements(<<>>),
      Parsed_Statements(<<BaseStatement, BaseStatement>>) }
    \cup { Parsed_Statements(<<s>>) : s \in QueryStatements }

Init ==
    /\ pc = "query"
    /\ ast \in ParseResults
    /\ stmt = Idle /\ sres = Out(Pending, <<>>)
    /\ name = <<>> /\ fres = Pending /\ fetchLog = <<>>
    /\ loaded = FALSE /\ plan = <<>> /\ qres = Pending
    /\ expr = Idle /\ eres = Out(Pending, <<>>)

Next ==
    \/ QueryParse
    \/ QuerySingle
    \/ QueryTranslate
    \/ RetrieveData
    \/ UrlFetcherFetch
    \/ FileFetcherFetch
    \/ QueryLoad
    \/ QueryFilter
    \/ QuerySort
    \/ QuerySlice
    \/ QuerySelectCollect

Spec == Init /\ [][Next]_vars

IsPrefix(p, q) == Len(p) <= Len(q) /\ SubSeq(q, 1, Len(p)) = p

\* C7: the pipeline of query() is built in the order filter, one sort per
\* order_by pair in list order, slice, projection; the filter is there exactly
\* when the condition is, the slice exactly when offset or limit is (offset 0
\* when absent, unbounded length when the limit is absent); the projection is
\* the last step before execution; and no step is built unless parsing, the
\* single-statement check, translation, fetch and load have all succeeded.
C7_PipelineOrder ==
    /\ plan # <<>> =>
          /\ ast.ok /\ Len(ast.stmts) = 1 /\ IsOk(sres.res) /\ IsOk(fres) /\ loaded
          /\ LET sql == sres.res.val
                 whole ==
                    (IF sql.condition # None
                     THEN <<Step("filter", sql.condition[1])>> ELSE <<>>)
                    \o [i \in 1..Len(sql.order_by) |-> Step("sort", sql.order_by[i])]
                    \o (IF sql.offset # None \/ sql.limit # None
                        THEN <<Step("slice",
                                    << IF sql.offset # None THEN sql.offset[1]
                                       ELSE Parsed(FALSE, <<"0">>),
                                       IF sql.limit # None THEN sql.limit[1]
                                       ELSE USIZE_MAX >>)>>
                        ELSE <<>>)
                    \o <<Step("select", sql.selection)>>
             IN  /\ IsPrefix(plan, whole)
                 /\ pc = "select" => plan = SubSeq(whole, 1, Len(whole) - 1)
                 /\ pc = "done" => plan = whole
    /\ (pc = "done" /\ (IsOk(qres) \/ qres = Err("ExecutionError"))) =>
          (plan # <<>> /\ plan[Len(plan)].op = "select")
    /\ pc \in {"sort", "slice", "select"} => loaded

\* A query with a condition, two sort keys and a limit but no offset, run to
\* its result: filter, sort, sort, slice from 0, projection.
C7_Witness ==
    /\ pc = "done"
    /\ IsOk(qres)
    /\ IsSome(sres.res.val.condition)
    /\ Len(sres.res.val.order_by) = 2
    /\ sres.res.val.offset = None
    /\ sres.res.val.limit # None
    /\ Len(plan) = 5
    /\ plan[1].op = "filter" /\ plan[2].op = "sort" /\ plan[3].op = "sort"
    /\ plan[4] = Step("slice", <<I64Zero, sres.res.val.limit[1]>>)
    /\ plan[5].op = "select"

=============================================================================
